---- MODULE Spec2Model ----
(***************************************************************************)
(* A model of savemem.py: LowMemContainer (the bounded cache in front of a *)
(* shelve store, with its background flush thread) and the LowMemList      *)
(* adapter.                                                                *)
(*                                                                         *)
(* Granularity.  The foreground thread runs a handler up to the point      *)
(* where it blocks in Thread.join (_wait_for_flush, line 136) in one step, *)
(* and the rest of the handler in a second step that is enabled once the   *)
(* joined thread is dead.  The flush thread runs one iteration of the      *)
(* drain loop of _do_flush per step.                                       *)
(*                                                                         *)
(* A Python dict is a sequence of <<key, value>> pairs in insertion order  *)
(* (popitem removes the last pair).  _recency maps keys to time.time()     *)
(* stamps; the clock is taken to be strictly increasing between two        *)
(* touches, so _recency is kept as the sequence of its keys, oldest stamp  *)
(* first, and min(_recency, key=_recency.get) is its head.                 *)
(***************************************************************************)
EXTENDS Integers, Sequences, FiniteSets, TLC

\* Bounds of the model.
MaxKey == 3
MaxVal == 2
MaxLimit == 2
MaxFaults == 1
MaxSeed == 1
\* A limit with cache_limit // 4 >= 1, and enough keys to exceed it.
EvictLimit == 4
EvictMaxKey == 5

Keys == 1..MaxKey
Values == 1..MaxVal
Limits == 0..MaxLimit
\* _length is not bounded by the number of keys (a set of an evicted key counts
\* it again); set is not called once it has reached MaxLength.
MaxLength == MaxKey + 1
\* List indices are 0-based, so index 0 is a key of a LowMemList.
AllKeys == 0..(IF MaxKey > EvictMaxKey THEN MaxKey ELSE EvictMaxKey)

VARIABLES
    open,             \* _open
    cache_limit,      \* _cache_limit
    cache,            \* _cache: dict, as a sequence of <<key, value>>
    recency,          \* _recency: keys, oldest time stamp first
    length,           \* _length
    shelf,            \* _shelf: function from encoded keys to values
    flush_thread,     \* _flush_thread: 0 (None) or the id of a thread object
    threads,          \* the thread objects: id -> [alive, items, alias]
    stop_flushing,    \* _stop_flushing
    flush_exception,  \* _flush_exception is not None
    has_flushed,      \* _has_flushed
    fg,               \* the handler the foreground thread is blocked in
    last,             \* the outcome of the last handler that ended
    latest,           \* per key, the value of the last set that returned (0: none)
    phase,            \* "fresh": only set, iter and len so far, nothing evicted;
                      \* "flushed": then one flush(), then only iter and len
    faults,           \* number of store faults injected so far
    it                \* the iterator the caller holds (kind "none": no iterator)

vars == <<open, cache_limit, cache, recency, length, shelf, flush_thread,
          threads, stop_flushing, flush_exception, has_flushed, fg, last,
          latest, phase, faults, it>>

-----------------------------------------------------------------------------
\* Python dicts and the shelf.

DictKeys(d) == {d[i][1] : i \in DOMAIN d}
DictHas(d, k) == \E i \in DOMAIN d : d[i][1] = k
DictGet(d, k) == d[CHOOSE i \in DOMAIN d : d[i][1] = k][2]
DictSet(d, k, v) ==
    IF DictHas(d, k)
    THEN [i \in DOMAIN d |-> IF d[i][1] = k THEN <<k, v>> ELSE d[i]]
    ELSE Append(d, <<k, v>>)
DictDel(d, k) == SelectSeq(d, LAMBDA e : e[1] # k)

SeqDel(r, k) == SelectSeq(r, LAMBDA x : x # k)
SeqHas(r, k) == \E i \in DOMAIN r : r[i] = k
\* self._recency[key] = time.time()
Touch(r, k) == Append(SeqDel(r, k), k)

\* pickle.dumps(key, HIGHEST_PROTOCOL) of a small int is the five bytes
\* 0x80 0x05 'K' key '.', each widened to one character.
_encode_key(key) == <<128, 5, 75, key, 46>>
_decode_key(key_str) == key_str[4]

EmptyShelf == [x \in {} |-> 0]
ShelfHas(sh, ks) == ks \in DOMAIN sh
ShelfSet(sh, ks, v) == [x \in DOMAIN sh \cup {ks} |-> IF x = ks THEN v ELSE sh[x]]
ShelfDel(sh, ks) == [x \in DOMAIN sh \ {ks} |-> sh[x]]

-----------------------------------------------------------------------------
\* The container as a record, so that handlers compose sequentially.

\* fg: op is the join the handler is blocked in ("idle": none), name the
\* public operation, live whether the joined thread was alive at the call.
Idle == [op |-> "idle", name |-> "", k |-> 0, v |-> 0, found |-> FALSE,
         sync |-> FALSE, excl |-> {}, live |-> FALSE]
Cont(op, k, v, found, sync, excl) ==
    [op |-> op, name |-> "", k |-> k, v |-> v, found |-> found, sync |-> sync,
     excl |-> excl, live |-> FALSE]

\* No iterator; otherwise kind is "shelf" (the generator LowMemContainer.__iter__
\* returns once something was flushed) or "multiset" (LowMemMultiSet.__iter__),
\* stage "new" until the first next(), todo the encoded keys still to visit,
\* key the key being yielded and n how often it is still to be yielded.
NoIter == [kind |-> "none", stage |-> "done", todo |-> {}, key |-> 0, n |-> 0]

Self ==
    [open |-> open, cache_limit |-> cache_limit, cache |-> cache,
     recency |-> recency, length |-> length, shelf |-> shelf,
     flush_thread |-> flush_thread, threads |-> threads,
     stop_flushing |-> stop_flushing, flush_exception |-> flush_exception,
     has_flushed |-> has_flushed, fg |-> Idle, exc |-> "none", ret |-> 0,
     keys |-> {}, it |-> it]

Raise(s, e) == [s EXCEPT !.exc = e]
Ok(s) == s.exc = "none"

LiveThreads(s) == {t \in DOMAIN s.threads : s.threads[t].alive}

\* Mutant: _wait_for_flush does not join the thread.
JoinNever(s) == FALSE

\* Whether the join of line 136 blocks.
JoinBlocks(s) ==
    /\ s.flush_thread # 0
    /\ s.threads[s.flush_thread].alive

\* The handler reaches the join of _wait_for_flush with continuation c.
Block(s, c) == [s EXCEPT !.fg = [c EXCEPT !.live = JoinBlocks(s)]]

\* threading.Thread(target=self._do_flush, args=(items,)); start().  The new
\* thread object replaces the one _flush_thread named; a thread that is still
\* alive keeps running whether or not it is referenced.
StartThread(s, items, alias) ==
    LET live == LiveThreads(s)
        id == CHOOSE i \in 1..(Cardinality(live) + 1) : i \notin live
    IN [s EXCEPT !.flush_thread = id,
                 !.threads = [t \in live \cup {id} |->
                                IF t = id
                                THEN [alive |-> TRUE, items |-> items, alias |-> alias]
                                ELSE s.threads[t]]]

\* _wait_for_flush up to the join (lines 130-136).
_wait_for_flush_begin(s, interrupt) ==
    IF interrupt THEN [s EXCEPT !.stop_flushing = TRUE] ELSE s

\* Mutant: the deferred exception is raised but stays in its slot.
WaitKeepsException(s) ==
    LET s1 == [s EXCEPT !.flush_thread = 0,
                        !.threads = [t \in LiveThreads(s) |-> s.threads[t]],
                        !.stop_flushing = FALSE]
    IN IF s.flush_exception THEN [s1 EXCEPT !.exc = "FlushError"] ELSE s1

\* _wait_for_flush after the join (lines 137-144).
_wait_for_flush_end(s) ==
    LET live == LiveThreads(s)
        s1 == [s EXCEPT !.flush_thread = 0,
                        !.threads = [t \in live |-> s.threads[t]],
                        !.stop_flushing = FALSE]
    IN IF s.flush_exception
       THEN [s1 EXCEPT !.flush_exception = FALSE, !.exc = "FlushError"]
       ELSE s1

\* Mutant: the whole cache is moved to to_flush, whatever the time stamps.
EvictEverything(s, n, to_flush) ==
    [s |-> [s EXCEPT !.cache = <<>>, !.recency = <<>>], to_flush |-> s.cache]

\* The loop of _partial_flush (lines 183-187): n least recent entries move
\* from the cache to to_flush.  min() of an empty _recency raises ValueError,
\* cache.pop of a key that is only in _recency raises KeyError.
RECURSIVE Evict(_, _, _)
Evict(s, n, to_flush) ==
    IF n <= 0 THEN [s |-> s, to_flush |-> to_flush]
    ELSE IF s.recency = <<>> THEN [s |-> Raise(s, "ValueError"), to_flush |-> to_flush]
    ELSE LET key == Head(s.recency) IN
         IF ~DictHas(s.cache, key)
         THEN [s |-> Raise(s, "KeyError"), to_flush |-> to_flush]
         ELSE Evict([s EXCEPT !.cache = DictDel(@, key), !.recency = Tail(@)],
                    n - 1, DictSet(to_flush, key, DictGet(s.cache, key)))

\* Mutant: the thread is given a copy of the cache and the cache keeps its
\* entries.
PartialFlushCopies(s) ==
    IF s.cache = <<>> THEN s
    ELSE StartThread([s EXCEPT !.has_flushed = TRUE], s.cache, FALSE)

\* _partial_flush, lines 182-193 (after the wait).
PartialFlushBody(s) ==
    LET r == Evict(s, Len(s.cache) - (s.cache_limit \div 4), <<>>)
    IN IF ~Ok(r.s) THEN r.s
       ELSE IF r.to_flush # <<>>
       THEN StartThread([r.s EXCEPT !.has_flushed = TRUE], r.to_flush, FALSE)
       ELSE r.s

\* _partial_flush where the join cannot block (no live thread is referenced).
_partial_flush(s) ==
    IF s.cache = <<>> THEN s
    ELSE LET w == IF s.has_flushed THEN _wait_for_flush_end(s) ELSE s
         IN IF ~Ok(w) THEN w ELSE PartialFlushBody(w)

\* _set, lines 257-259.
SetInsert(s, key, value) ==
    IF ~Ok(s) THEN s
    ELSE [s EXCEPT !.cache = DictSet(@, key, value),
                   !.recency = Touch(@, key),
                   !.length = @ + 1]

\* _set up to the join inside _partial_flush.
_set(s, key, value) ==
    IF ~s.open THEN Raise(s, "TypeError")
    ELSE IF DictHas(s.cache, key)
    THEN [s EXCEPT !.cache = DictSet(@, key, value), !.recency = Touch(@, key)]
    ELSE IF Len(s.cache) >= s.cache_limit
    THEN IF s.cache # <<>> /\ s.has_flushed
         THEN Block(s, Cont("set", key, value, FALSE, FALSE, {}))
         ELSE SetInsert(_partial_flush(s), key, value)
    ELSE SetInsert(s, key, value)

\* _set after the join inside _partial_flush (lines 180-193, 257-259).
_set_resume(s, c) ==
    LET w == _wait_for_flush_end(s) IN
    SetInsert(IF Ok(w) THEN PartialFlushBody(w) ELSE w, c.k, c.v)

\* _get up to the join of line 229.
_get(s, key) ==
    IF ~s.open THEN Raise(s, "TypeError")
    ELSE IF s.has_flushed /\ ~DictHas(s.cache, key)
    THEN Block(s, Cont("get", key, 0, FALSE, FALSE, {}))
    ELSE IF ~DictHas(s.cache, key) THEN Raise(s, "KeyError")
    ELSE [s EXCEPT !.recency = Touch(@, key), !.ret = DictGet(s.cache, key)]

\* _get after the join (lines 229-242).
_get_resume(s, c) ==
    LET w == _wait_for_flush_end(s) IN
    IF ~Ok(w) THEN w
    ELSE IF ~ShelfHas(w.shelf, _encode_key(c.k)) THEN Raise(w, "KeyError")
    ELSE LET value == w.shelf[_encode_key(c.k)]
             f == IF Len(w.cache) >= w.cache_limit THEN _partial_flush(w) ELSE w
         IN IF ~Ok(f) THEN f
            ELSE [f EXCEPT !.cache = DictSet(@, c.k, value),
                           !.recency = Touch(@, c.k),
                           !.ret = value]


\* _del up to the join of line 270 (lines 262-268), or all of it (281-283).
_del(s, key) ==
    IF ~s.open THEN Raise(s, "TypeError")
    ELSE IF s.has_flushed
    THEN IF DictHas(s.cache, key)
         THEN LET s1 == [s EXCEPT !.cache = DictDel(@, key)] IN
              IF ~SeqHas(s.recency, key) THEN Raise(s1, "KeyError")
              ELSE Block([s1 EXCEPT !.recency = SeqDel(@, key)],
                         Cont("del", key, 0, TRUE, FALSE, {}))
         ELSE Block(s, Cont("del", key, 0, FALSE, FALSE, {}))
    ELSE IF ~DictHas(s.cache, key) THEN Raise(s, "KeyError")
    ELSE [s EXCEPT !.cache = DictDel(@, key), !.length = @ - 1]

\* Mutant: a key the store does not have is never reported.
DelIgnoresMissing(s, c) ==
    LET w == _wait_for_flush_end(s)
        ks == _encode_key(c.k)
    IN IF ~Ok(w) THEN w
       ELSE LET sh == IF ShelfHas(w.shelf, ks) THEN ShelfDel(w.shelf, ks) ELSE w.shelf
            IN [w EXCEPT !.shelf = sh,
                         !.has_flushed = IF DOMAIN sh = {} THEN FALSE ELSE @,
                         !.length = @ - 1]

\* _del after the join (lines 270-279, 283).
_del_resume(s, c) ==
    LET w == _wait_for_flush_end(s)
        ks == _encode_key(c.k)
    IN IF ~Ok(w) THEN w
       ELSE IF ~ShelfHas(w.shelf, ks) /\ ~c.found THEN Raise(w, "KeyError")
       ELSE LET sh == IF ShelfHas(w.shelf, ks) THEN ShelfDel(w.shelf, ks) ELSE w.shelf
            IN [w EXCEPT !.shelf = sh,
                         !.has_flushed = IF DOMAIN sh = {} THEN FALSE ELSE @,
                         !.length = @ - 1]

\* __contains__ up to the join of line 291.
__contains__(s, key) ==
    IF ~s.open THEN Raise(s, "TypeError")
    ELSE IF DictHas(s.cache, key)
    THEN [s EXCEPT !.recency = Touch(@, key), !.ret = 1]
    ELSE IF s.has_flushed THEN Block(s, Cont("contains", key, 0, FALSE, FALSE, {}))
    ELSE [s EXCEPT !.ret = 0]

\* __contains__ after the join (lines 291-292).
__contains___resume(s, c) ==
    LET w == _wait_for_flush_end(s) IN
    IF ~Ok(w) THEN w
    ELSE [w EXCEPT !.ret = IF ShelfHas(w.shelf, _encode_key(c.k)) THEN 1 ELSE 0]

\* __iter__ up to the join of line 298; keys is what the iterator yields
\* when it is consumed at once.
\* Mutant: iteration always waits for the flush thread and reads the store.
IterStoreOnly(s) == Block(s, Cont("iter", 0, 0, FALSE, FALSE, {}))

__iter__(s) ==
    IF s.has_flushed THEN Block(s, Cont("iter", 0, 0, FALSE, FALSE, {}))
    ELSE IF ~s.open THEN Raise(s, "TypeError")
    ELSE [s EXCEPT !.keys = DictKeys(s.cache)]

\* __iter__ after the join (lines 298-299).
__iter___resume(s, c) ==
    LET w == _wait_for_flush_end(s) IN
    IF ~Ok(w) THEN w
    ELSE IF ~w.open THEN Raise(w, "TypeError")
    ELSE [w EXCEPT !.keys = {_decode_key(ks) : ks \in DOMAIN w.shelf}]

\* __len__.
__len__(s) == [s EXCEPT !.ret = s.length]

\* The exclusions branch of flush (lines 208-214): for key in exclusions, in
\* ascending order; old is the _recency of before.
RECURSIVE Exclude(_, _, _)
Exclude(s, old, exclusions) ==
    IF exclusions = {} THEN s
    ELSE LET key == CHOOSE x \in exclusions : \A y \in exclusions : x <= y IN
         IF ~DictHas(s.cache, key) THEN Raise(s, "KeyError")
         ELSE LET s1 == [s EXCEPT !.cache = Append(DictDel(@, key),
                                                  <<key, DictGet(s.cache, key)>>)]
              IN IF ~SeqHas(old, key) THEN Raise(s1, "KeyError")
                 ELSE Exclude([s1 EXCEPT !.recency =
                                  SelectSeq(old, LAMBDA x : x = key \/ SeqHas(s1.recency, x))],
                              old, exclusions \ {key})

\* flush, lines 205-225 up to the join of the synchronous variant.  With
\* exclusions the thread is given the dict that is still self._cache.
FlushBody(s, synchronous, exclusions) ==
    LET d == IF exclusions # {}
             THEN Exclude([s EXCEPT !.recency = <<>>], s.recency, exclusions)
             ELSE [s EXCEPT !.cache = <<>>, !.recency = <<>>]
    IN IF ~Ok(d) THEN d
       ELSE LET st == StartThread(d, IF exclusions # {} THEN <<>> ELSE s.cache,
                                  exclusions # {})
            IN IF synchronous
               THEN Block(st, Cont("flush_sync", 0, 0, FALSE, synchronous, exclusions))
               ELSE st

\* flush up to the join of line 201.
flush(s, synchronous, exclusions) ==
    IF ~s.open \/ s.cache = <<>> THEN s
    ELSE IF s.has_flushed
    THEN Block(s, Cont("flush", 0, 0, FALSE, synchronous, exclusions))
    ELSE FlushBody([s EXCEPT !.has_flushed = TRUE], synchronous, exclusions)

flush_resume(s, c) ==
    LET w == _wait_for_flush_end(s) IN
    IF ~Ok(w) THEN w ELSE FlushBody(w, c.sync, c.excl)

\* flush(synchronous=True) after the join of line 225.
flush_sync_resume(s, c) == _wait_for_flush_end(s)

\* clear up to the join (lines 308-312), or all of it.
clear(s) ==
    IF ~s.open THEN Raise(s, "AttributeError")
    ELSE LET c == [s EXCEPT !.cache = <<>>, !.recency = <<>>] IN
         IF c.has_flushed
         THEN Block(_wait_for_flush_begin(c, TRUE), Cont("clear", 0, 0, FALSE, FALSE, {}))
         ELSE [c EXCEPT !.length = 0]

\* Mutant: clear leaves the store as it is.
ClearKeepsShelf(s, c) ==
    LET w == _wait_for_flush_end(s) IN
    IF ~Ok(w) THEN w
    ELSE [w EXCEPT !.has_flushed = FALSE, !.length = 0]

\* clear after the join (lines 312-316).
clear_resume(s, c) ==
    LET w == _wait_for_flush_end(s) IN
    IF ~Ok(w) THEN w
    ELSE [w EXCEPT !.shelf = EmptyShelf, !.has_flushed = FALSE, !.length = 0]

\* close up to the join (lines 105-109).
close(s) ==
    IF ~s.open THEN s
    ELSE Block(_wait_for_flush_begin(s, TRUE), Cont("close", 0, 0, FALSE, FALSE, {}))

\* close after the join (lines 109-127): _shelf, _dir, _cache and _recency
\* become None, which the model records as open = FALSE.
close_resume(s, c) ==
    LET w == _wait_for_flush_end(s) IN
    IF ~Ok(w) THEN w
    ELSE [w EXCEPT !.shelf = EmptyShelf, !.cache = <<>>, !.recency = <<>>,
                   !.open = FALSE]

-----------------------------------------------------------------------------
\* The flush thread.

\* The dict thread t drains: its own, or the container's _cache itself.
ThreadDict(s, t) == IF s.threads[t].alias THEN s.cache ELSE s.threads[t].items

PutThreadDict(s, t, d) ==
    IF s.threads[t].alias THEN [s EXCEPT !.cache = d]
    ELSE [s EXCEPT !.threads[t].items = d]

\* One iteration of the loop of _do_flush (lines 149-151); with fault, the
\* store raises and the except clause records it (lines 154-155).
_do_flush_step(s, t, fault) ==
    LET d == ThreadDict(s, t)
        item == d[Len(d)]
        s1 == PutThreadDict(s, t, SubSeq(d, 1, Len(d) - 1))
    IN IF fault \/ ~s.open
       THEN [s1 EXCEPT !.flush_exception = TRUE, !.threads[t].alive = FALSE]
       ELSE [s1 EXCEPT !.shelf = ShelfSet(@, _encode_key(item[1]), item[2])]

\* Mutant: the thread empties its dict and never returns from _do_flush.
ExitStaysAlive(s, t) == PutThreadDict(s, t, <<>>)

\* The loop of _do_flush ends (lines 149, 152-153) and the thread dies.
_do_flush_exit(s, t) ==
    [PutThreadDict(s, t, <<>>) EXCEPT !.threads[t].alive = FALSE]

-----------------------------------------------------------------------------
\* LowMemList.

\* _convert_index (lines 377-385): the index, or -1 where it raises IndexError.
_convert_index(s, index) ==
    LET i == IF index < 0 THEN index + s.length ELSE index
    IN IF 0 <= i /\ i < s.length THEN i ELSE -1

\* __getitem__ with an int (lines 387-390).
__getitem__(s, item) ==
    LET index == _convert_index(s, item) IN
    IF index < 0 THEN Raise(s, "IndexError") ELSE _get(s, index)

\* __setitem__ with an int (lines 392-395).
__setitem__(s, key, value) ==
    LET index == _convert_index(s, key) IN
    IF index < 0 THEN Raise(s, "IndexError") ELSE _set(s, index, value)

\* __delitem__ with an int (lines 397-406).
__delitem__(s, key) ==
    LET index == _convert_index(s, key) IN
    IF index < 0 THEN Raise(s, "IndexError")
    ELSE IF index = s.length - 1 THEN _del(s, index)
    ELSE Raise(s, "NotImplementedError")

\* insert (lines 408-413).
insert(s, index, value) ==
    LET i == _convert_index(s, index) IN
    IF i < 0 THEN Raise(s, "IndexError")
    ELSE IF i = s.length THEN _set(s, i, value)
    ELSE Raise(s, "NotImplementedError")

\* The loop of trim (lines 421-422) from index down to length, up to the
\* first _del that raises or waits in its join.
RECURSIVE trim_loop(_, _, _)
trim_loop(s, index, length_) ==
    IF index < length_ THEN s
    ELSE LET d == _del(s, index) IN
         IF ~Ok(d) THEN d
         ELSE IF d.fg.op # "idle"
         THEN [d EXCEPT !.fg.op = "trim", !.fg.k = length_, !.fg.v = index]
         ELSE trim_loop(d, index - 1, length_)

\* trim(length) with length >= 0 (lines 415-422).
trim(s, length_) == trim_loop(s, s.length - 1, length_)

\* trim after the join of the _del of index c.v.
trim_resume(s, c) ==
    LET d == _del_resume(s, [c EXCEPT !.k = c.v]) IN
    IF ~Ok(d) THEN d ELSE trim_loop(d, c.v - 1, c.k)

-----------------------------------------------------------------------------
\* Iterators that are consumed one next() at a time.

\* The generator ends (by StopIteration or by the exception e).
Finish(s, e) == [s EXCEPT !.exc = e, !.it.stage = "done", !.it.todo = {}, !.it.n = 0]

\* The encoded key the iteration of the shelf visits next (keys in ascending
\* order of the key they encode).
NextKey(todo) == CHOOSE x \in todo : \A y \in todo : _decode_key(x) <= _decode_key(y)

\* iter(container) up to the join of line 298.  When nothing was flushed the
\* iterator is iter(self._cache), which is taken to be consumed at once.
iter_open(s) ==
    IF s.has_flushed THEN Block(s, Cont("iter_open", 0, 0, FALSE, FALSE, {}))
    ELSE __iter__(s)

\* iter(container) after the join (line 299): the generator over self._shelf
\* is created and has not run yet.
iter_open_resume(s, c) ==
    LET w == _wait_for_flush_end(s) IN
    IF ~Ok(w) THEN w
    ELSE IF ~w.open THEN Raise(w, "TypeError")
    ELSE [w EXCEPT !.it = [kind |-> "shelf", stage |-> "new", todo |-> {},
                            key |-> 0, n |-> 0]]

\* Calling LowMemMultiSet.__iter__ (a generator function) runs none of it.
ms_iter_open(s) ==
    [s EXCEPT !.it = [kind |-> "multiset", stage |-> "new", todo |-> {},
                      key |-> 0, n |-> 0]]

\* next() of the generator of line 299.  Shelf.__iter__ reads the keys of the
\* store when it is first resumed and then walks that list.
shelf_next(s) ==
    LET todo == IF s.it.stage = "new" THEN DOMAIN s.shelf ELSE s.it.todo IN
    IF s.it.stage = "new" /\ ~s.open THEN Finish(s, "ValueError")
    ELSE IF todo = {} THEN Finish(s, "StopIteration")
    ELSE [s EXCEPT !.it.stage = "run", !.it.todo = todo \ {NextKey(todo)},
                   !.ret = _decode_key(NextKey(todo))]

\* LowMemMultiSet.__iter__, lines 364-367, from the point where the next key
\* is taken: self._shelf.items() reads the count of each key from the store
\* when it comes to it.
ms_advance(s) ==
    IF s.it.todo = {} THEN Finish(s, "StopIteration")
    ELSE LET ks == NextKey(s.it.todo) IN
         IF ~s.open THEN Finish(s, "ValueError")
         ELSE IF ~ShelfHas(s.shelf, ks) THEN Finish(s, "KeyError")
         ELSE [s EXCEPT !.it.stage = "run", !.it.todo = @ \ {ks},
                        !.it.key = _decode_key(ks), !.it.n = s.shelf[ks] - 1,
                        !.ret = _decode_key(ks)]

\* next() of a LowMemMultiSet iterator: the first call runs into the join of
\* line 363; later calls yield the key again or go on to the next key.
ms_next(s) ==
    IF s.it.stage = "new" THEN Block(s, Cont("next", 0, 0, FALSE, FALSE, {}))
    ELSE IF s.it.n > 0 THEN [s EXCEPT !.it.n = @ - 1, !.ret = s.it.key]
    ELSE ms_advance(s)

\* The first next() of a LowMemMultiSet iterator after the join (line 364).
ms_next_resume(s, c) ==
    LET w == _wait_for_flush_end(s) IN
    IF ~Ok(w) THEN Finish(w, w.exc)
    ELSE IF ~w.open THEN Finish(w, "AttributeError")
    ELSE ms_advance([w EXCEPT !.it.todo = DOMAIN w.shelf])

\* Whether next() on the iterator of s reads the store without joining first.
NextReadsStore(s) ==
    \/ s.it.kind = "shelf" /\ s.it.stage = "new"
    \/ s.it.kind = "multiset" /\ s.it.stage = "run" /\ s.it.n = 0 /\ s.it.todo # {}

-----------------------------------------------------------------------------
\* Actions.

Install(t) ==
    /\ open' = t.open
    /\ cache_limit' = t.cache_limit
    /\ cache' = t.cache
    /\ recency' = t.recency
    /\ length' = t.length
    /\ shelf' = t.shelf
    /\ flush_thread' = t.flush_thread
    /\ threads' = t.threads
    /\ stop_flushing' = t.stop_flushing
    /\ flush_exception' = t.flush_exception
    /\ has_flushed' = t.has_flushed
    /\ it' = t.it

\* The abstract map after handler name(k, v) ended with outcome t (a list
\* index k counts from the end when negative).
Latest(t, name, k, v) ==
    IF name = "trim"
    THEN [x \in AllKeys |-> IF x >= t.length THEN 0 ELSE latest[x]]
    ELSE IF ~Ok(t) THEN latest
    ELSE IF name \in {"set", "insert", "setitem"}
    THEN [latest EXCEPT ![IF k < 0 THEN k + length ELSE k] = v]
    ELSE IF name \in {"del", "delitem"}
    THEN [latest EXCEPT ![IF k < 0 THEN k + length ELSE k] = 0]
    ELSE IF name = "clear" THEN [x \in AllKeys |-> 0]
    ELSE latest

Phase(t, name) ==
    IF phase = "fresh" /\ name \in {"set", "iter", "len"} /\ Ok(t) /\ ~t.has_flushed
    THEN "fresh"
    ELSE IF phase = "fresh" /\ name = "flush" /\ Ok(t) THEN "flushed"
    ELSE IF phase = "flushed" /\ name \in {"iter", "len"} /\ Ok(t) THEN "flushed"
    ELSE "other"

\* Handler name(k, v) ran to t: it ended (stage: the join it came from, or
\* "call"), or it is blocked in a join.
Step(t, name, stage, k, v) ==
    /\ Install(t)
    /\ IF t.fg.op = "idle"
       THEN /\ fg' = Idle
            /\ last' = [op |-> name, stage |-> stage, k |-> k, exc |-> t.exc,
                        ret |-> t.ret, keys |-> t.keys, live |-> fg.live]
            /\ latest' = Latest(t, name, k, v)
            /\ phase' = Phase(t, name)
       ELSE /\ fg' = [t.fg EXCEPT !.name = name]
            /\ UNCHANGED <<last, latest, phase>>
    /\ UNCHANGED faults

Set(k, v) ==
    /\ fg.op = "idle"
    /\ DictHas(cache, k) \/ length < MaxLength
    /\ Step(_set(Self, k, v), "set", "call", k, v)

\* set in the specification with EvictMaxKey keys.
EvictSet(k) ==
    /\ fg.op = "idle"
    /\ DictHas(cache, k) \/ length <= EvictMaxKey
    /\ Step(_set(Self, k, 1), "set", "call", k, 1)

Get(k) ==
    /\ fg.op = "idle"
    /\ Step(_get(Self, k), "get", "call", k, 0)

Del(k) ==
    /\ fg.op = "idle"
    /\ Step(_del(Self, k), "del", "call", k, 0)

Contains(k) ==
    /\ fg.op = "idle"
    /\ Step(__contains__(Self, k), "contains", "call", k, 0)

Iter ==
    /\ fg.op = "idle"
    /\ Step(__iter__(Self), "iter", "call", 0, 0)

LenOp ==
    /\ fg.op = "idle"
    /\ Step(__len__(Self), "len", "call", 0, 0)

Flush(synchronous) ==
    /\ fg.op = "idle"
    /\ Step(flush(Self, synchronous, {}), "flush", "call", 0, 0)

FlushExcl(synchronous, exclusions) ==
    /\ fg.op = "idle"
    /\ Step(flush(Self, synchronous, exclusions), "flush_excl", "call", 0, 0)

Clear ==
    /\ fg.op = "idle"
    /\ Step(clear(Self), "clear", "call", 0, 0)

Close ==
    /\ fg.op = "idle"
    /\ Step(close(Self), "close", "call", 0, 0)

GetItem(i) ==
    /\ fg.op = "idle"
    /\ Step(__getitem__(Self, i), "getitem", "call", i, 0)

SetItem(i, v) ==
    /\ fg.op = "idle"
    /\ length < MaxLength
    /\ Step(__setitem__(Self, i, v), "setitem", "call", i, v)

DelItem(i) ==
    /\ fg.op = "idle"
    /\ Step(__delitem__(Self, i), "delitem", "call", i, 0)

Insert(i, v) ==
    /\ fg.op = "idle"
    /\ length < MaxLength
    /\ Step(insert(Self, i, v), "insert", "call", i, v)

Trim(n) ==
    /\ fg.op = "idle"
    /\ Step(trim(Self, n), "trim", "call", n, 0)

IterOpen ==
    /\ fg.op = "idle"
    /\ Step(iter_open(Self), "iter_open", "call", 0, 0)

MsIterOpen ==
    /\ fg.op = "idle"
    /\ Step(ms_iter_open(Self), "ms_iter_open", "call", 0, 0)

IterNext ==
    /\ fg.op = "idle"
    /\ it.kind # "none" /\ it.stage # "done"
    /\ Step(IF it.kind = "shelf" THEN shelf_next(Self) ELSE ms_next(Self),
            "next", "call", 0, 0)

\* The join returns and the blocked handler runs on.
Resumed(s, c) ==
    CASE c.op = "set" -> _set_resume(s, c)
      [] c.op = "get" -> _get_resume(s, c)
      [] c.op = "del" -> _del_resume(s, c)
      [] c.op = "contains" -> __contains___resume(s, c)
      [] c.op = "iter" -> __iter___resume(s, c)
      [] c.op = "flush" -> flush_resume(s, c)
      [] c.op = "flush_sync" -> flush_sync_resume(s, c)
      [] c.op = "clear" -> clear_resume(s, c)
      [] c.op = "close" -> close_resume(s, c)
      [] c.op = "iter_open" -> iter_open_resume(s, c)
      [] c.op = "next" -> ms_next_resume(s, c)
      [] c.op = "trim" -> trim_resume(s, c)

Resume ==
    /\ fg.op \notin {"idle", "failed"}
    /\ ~JoinBlocks(Self)
    /\ \E t \in {Resumed(Self, fg)} : Step(t, fg.name, fg.op, fg.k, fg.v)

Drain(t) ==
    /\ t \in LiveThreads(Self)
    /\ ThreadDict(Self, t) # <<>>
    /\ ~stop_flushing
    /\ Install(_do_flush_step(Self, t, FALSE))
    /\ UNCHANGED <<fg, last, latest, phase, faults>>

\* The store raises in the flush thread (at most MaxFaults times).
DrainFault(t) ==
    /\ t \in LiveThreads(Self)
    /\ ThreadDict(Self, t) # <<>>
    /\ ~stop_flushing
    /\ faults < MaxFaults
    /\ Install(_do_flush_step(Self, t, TRUE))
    /\ faults' = faults + 1
    /\ UNCHANGED <<fg, last, latest, phase>>

Exit(t) ==
    /\ t \in LiveThreads(Self)
    /\ ThreadDict(Self, t) = <<>> \/ stop_flushing
    /\ Install(_do_flush_exit(Self, t))
    /\ UNCHANGED <<fg, last, latest, phase, faults>>

-----------------------------------------------------------------------------
\* Construction.

\* __init__ (lines 60-81) with the given initial items and default limit.
__init__(items, limit) ==
    LET s == [open |-> TRUE, cache_limit |-> limit, cache |-> items,
              recency |-> <<>>, length |-> Len(items), shelf |-> EmptyShelf,
              flush_thread |-> 0, threads |-> [t \in {} |-> 0],
              stop_flushing |-> FALSE, flush_exception |-> FALSE,
              has_flushed |-> FALSE, fg |-> Idle, exc |-> "none", ret |-> 0,
              keys |-> {}, it |-> NoIter]
    IN IF Len(s.cache) >= s.cache_limit THEN _partial_flush(s) ELSE s

\* The state after LowMemContainer(items) with default limit `limit`; when
\* __init__ raises there is no container to call (fg.op = "failed").
Constructed(items, limit) ==
    LET t == __init__(items, limit) IN
    /\ open = t.open
    /\ cache_limit = t.cache_limit
    /\ cache = t.cache
    /\ recency = t.recency
    /\ length = t.length
    /\ shelf = t.shelf
    /\ flush_thread = t.flush_thread
    /\ threads = t.threads
    /\ stop_flushing = t.stop_flushing
    /\ flush_exception = t.flush_exception
    /\ has_flushed = t.has_flushed
    /\ it = t.it
    /\ fg = IF Ok(t) THEN Idle ELSE [Idle EXCEPT !.op = "failed"]
    /\ last = [op |-> "init", stage |-> "call", k |-> 0, exc |-> t.exc,
               ret |-> 0, keys |-> {}, live |-> FALSE]
    /\ latest = [x \in AllKeys |-> IF DictHas(items, x) THEN DictGet(items, x) ELSE 0]
    /\ phase = IF items = <<>> /\ Ok(t) THEN "fresh" ELSE "other"
    /\ faults = 0

\* Initial items of a dict: the keys 1..n, each with value 1.
Seed(n) == [i \in 1..n |-> <<i, 1>>]

\* Initial items of a list: the indices 0..n-1, each with value 1.
ListSeed(n) == [i \in 1..n |-> <<i - 1, 1>>]

-----------------------------------------------------------------------------
\* Specifications.

Worker ==
    \/ \E t \in DOMAIN threads : Drain(t)
    \/ \E t \in DOMAIN threads : Exit(t)

\* An empty dict with a limit of at least one; set and get only; no store fault.
InitSetGet == \E limit \in Limits \ {0} : Constructed(<<>>, limit)

NextSetGet ==
    \/ \E k \in Keys, v \in Values : Set(k, v)
    \/ \E k \in Keys : Get(k)
    \/ Resume
    \/ Worker

SpecSetGet == InitSetGet /\ [][NextSetGet]_vars

\* A dict with or without initial items and any accepted limit; every public
\* operation (flush without exclusions); no store fault.
Init == \E limit \in Limits, n \in 0..MaxSeed : Constructed(Seed(n), limit)

Next ==
    \/ \E k \in Keys : Set(k, 1)
    \/ \E k \in Keys : Get(k)
    \/ \E k \in Keys : Del(k)
    \/ \E k \in Keys : Contains(k)
    \/ Iter
    \/ LenOp
    \/ \E synchronous \in BOOLEAN : Flush(synchronous)
    \/ Clear
    \/ Close
    \/ Resume
    \/ Worker

Spec == Init /\ [][Next]_vars

\* The same, with store faults in the flush thread.
NextFault ==
    \/ Next
    \/ \E t \in DOMAIN threads : DrainFault(t)

SpecFault == Init /\ [][NextFault]_vars

\* Every operation that joins the flush thread, on an empty container with a
\* limit of at least one and the keys 1..MaxKey-1, with store faults, under
\* a fair scheduler: a flush thread that can take a step of _do_flush takes
\* one, and a foreground thread whose join has returned runs on.
LiveKeys == 1..(MaxKey - 1)

NextLive ==
    \/ \E k \in LiveKeys : Set(k, 1)
    \/ \E k \in LiveKeys : Get(k)
    \/ \E k \in LiveKeys : Del(k)
    \/ \E k \in LiveKeys : Contains(k)
    \/ Iter
    \/ \E synchronous \in BOOLEAN : Flush(synchronous)
    \/ Clear
    \/ Close
    \/ Resume
    \/ Worker
    \/ \E t \in DOMAIN threads : DrainFault(t)

SpecLive ==
    /\ InitSetGet /\ [][NextLive]_vars
    /\ WF_vars(\E t \in DOMAIN threads : Drain(t) \/ DrainFault(t) \/ Exit(t))
    /\ WF_vars(Resume)

\* The same as Spec, with flush(exclusions=E).
NextExcl ==
    \/ Next
    \/ \E synchronous \in BOOLEAN, exclusions \in SUBSET Keys \ {{}} :
          FlushExcl(synchronous, exclusions)

SpecExcl == Init /\ [][NextExcl]_vars

\* A LowMemList with or without initial items.
InitList == \E limit \in Limits, n \in 0..MaxSeed : Constructed(ListSeed(n), limit)

Indices == (0 - MaxKey)..MaxKey

NextList ==
    \/ \E i \in Indices, v \in Values : Insert(i, v)
    \/ \E i \in Indices : DelItem(i)
    \/ \E i \in Indices : GetItem(i)
    \/ \E i \in Indices, v \in Values : SetItem(i, v)
    \/ LenOp
    \/ \E synchronous \in BOOLEAN : Flush(synchronous)
    \/ Resume
    \/ Worker

SpecList == InitList /\ [][NextList]_vars

\* An empty container with a limit of at least one; set, get, delete and
\* iterators consumed lazily; no store fault.
NextIter ==
    \/ \E k \in Keys : Set(k, 1)
    \/ \E k \in Keys : Get(k)
    \/ \E k \in Keys : Del(k)
    \/ IterOpen
    \/ MsIterOpen
    \/ IterNext
    \/ Resume
    \/ Worker

SpecIter == InitSetGet /\ [][NextIter]_vars

\* An empty container whose limit keeps cache_limit // 4 >= 1 entries
\* resident, or the limit MaxLimit; set and get; no store fault.
InitEvict == \E limit \in {MaxLimit, EvictLimit} : Constructed(<<>>, limit)

NextEvict ==
    \/ \E k \in 1..EvictMaxKey : EvictSet(k)
    \/ \E k \in 1..EvictMaxKey : Get(k)
    \/ Resume
    \/ Worker

SpecEvict == InitEvict /\ [][NextEvict]_vars

\* A LowMemList of up to MaxSeed + 1 items, all resident at first (a list
\* gets its items at construction, and construction needs fewer items than
\* the limit); trim, item reads and flush, with store faults.
InitTrim == \E n \in 0..(MaxSeed + 1) : Constructed(ListSeed(n), MaxSeed + 2)

NextTrim ==
    \/ \E n \in 0..(MaxSeed + 1) : Trim(n)
    \/ \E i \in 0..(MaxSeed + 1) : GetItem(i)
    \/ \E synchronous \in BOOLEAN : Flush(synchronous)
    \/ Resume
    \/ Worker
    \/ \E t \in DOMAIN threads : DrainFault(t)

SpecTrim == InitTrim /\ [][NextTrim]_vars

\* A dict constructed with or without initial items, with a limit of at
\* least one; set and get only; no store fault.
InitSeed == \E limit \in Limits \ {0}, n \in 0..MaxSeed : Constructed(Seed(n), limit)

SpecSeed == InitSeed /\ [][NextSetGet]_vars

-----------------------------------------------------------------------------
\* C1: with no store fault, on a container constructed empty with a limit of
\* at least one, every get(k) that ends returns the value of the last set of
\* k that returned, and raises KeyError when k was never set.
C1_GetReturnsLatest ==
    last.op = "get" =>
        IF latest[last.k] # 0
        THEN last.exc = "none" /\ last.ret = latest[last.k]
        ELSE last.exc = "KeyError"

\* A get of a key that was evicted while its flush thread was still alive
\* returned the overwritten value, every key having been set.
C1_Witness ==
    /\ last.op = "get" /\ last.stage = "get" /\ last.live
    /\ last.exc = "none" /\ last.ret = MaxVal
    /\ \A k \in Keys : latest[k] # 0
    /\ Cardinality(Keys) > cache_limit

-----------------------------------------------------------------------------
\* C2: at most one flush thread is alive at any time, whatever the sequence
\* of set, get, delete, contains, iterate, flush (with or without exclusions),
\* clear and close calls.
C2_SingleFlight == Cardinality(LiveThreads(Self)) <= 1

\* A set that had to evict found the previous flush thread still alive,
\* joined it, and started the next one.
C2_Witness ==
    /\ last.op = "set" /\ last.stage = "set" /\ last.live
    /\ Cardinality(LiveThreads(Self)) = 1
    /\ DOMAIN shelf # {}

-----------------------------------------------------------------------------
\* Steps of the foreground thread, for the claims about single operations.

\* The blocked handler passes its join.
Passes == fg.op \notin {"idle", "failed"} /\ fg' # fg

\* A handler ends in this step raising the deferred exception of a flush thread.
RaisesFlushError == Passes /\ fg'.op = "idle" /\ last'.exc = "FlushError"

\* This step starts a flush thread.
StartsThread == \E t \in LiveThreads(Self)' : t \notin LiveThreads(Self)

\* A store fault in the flush thread is recorded and nothing is raised there.
C3_Captured ==
    faults' # faults => flush_exception' /\ fg' = fg /\ last' = last

\* The first handler to pass a join while the slot is set raises the exception
\* and empties the slot.
C3_RaisedAtSync ==
    Passes /\ flush_exception =>
        fg'.op = "idle" /\ last'.exc = "FlushError" /\ ~flush_exception'

\* Every raise takes an exception out of the slot, and only a store fault
\* puts one in: no fault is raised twice.
C3_Once ==
    /\ RaisesFlushError => flush_exception /\ ~flush_exception'
    /\ ~flush_exception /\ flush_exception' => faults' = faults + 1

\* A handler that starts a thread ends without raising, unless it is
\* flush(synchronous=True), which goes on to join the thread it started.
C3_Starter ==
    StartsThread =>
        IF fg'.op = "idle" THEN last'.exc = "none" ELSE fg'.op = "flush_sync"

\* C3 (as amended): a store fault in the flush thread is captured; the handler
\* that started the thread does not raise it unless it is the synchronous
\* flush; the first later handler that joins raises it, once.
C3_DeferredError ==
    [][C3_Captured /\ C3_RaisedAtSync /\ C3_Once /\ C3_Starter]_vars

\* C3 as stated: no handler raises the fault of the thread it started itself.
C3_Original ==
    [][/\ C3_Captured /\ C3_RaisedAtSync /\ C3_Once
       /\ RaisesFlushError => fg.op # "flush_sync"]_vars

\* A get miss raised the fault of a thread an earlier handler had started.
C3_Witness ==
    /\ last.op = "get" /\ last.exc = "FlushError"
    /\ faults = 1 /\ ~flush_exception

-----------------------------------------------------------------------------
\* C4: once the container is closed, every public operation other than close
\* ends with an error, and the container stays closed and empty.
C4_ClosedOpsFail ==
    ~open /\ last.op \notin {"close", "init"} =>
        /\ last.exc # "none"
        /\ cache = <<>> /\ DOMAIN shelf = {} /\ LiveThreads(Self) = {}

\* C5: when a close() ends, it has not raised, the container is closed, the
\* store is released and no flush thread is alive.
C5_CloseCloses ==
    last.op = "close" =>
        last.exc = "none" /\ ~open /\ DOMAIN shelf = {} /\ LiveThreads(Self) = {}

-----------------------------------------------------------------------------
\* C6: a clear() that found the flush thread alive (and no store fault) ends
\* without raising; then no thread is alive, the cache and the store are
\* empty, len is 0, and every key is absent for get and for contains.
C6_ClearDiscards ==
    last.op = "clear" /\ last.live /\ fg.op = "idle" =>
        /\ last.exc = "none"
        /\ LiveThreads(Self) = {}
        /\ cache = <<>> /\ DOMAIN shelf = {}
        /\ __len__(Self).ret = 0
        /\ \A k \in Keys :
              /\ _get(Self, k).fg.op = "idle" /\ _get(Self, k).exc = "KeyError"
              /\ __contains__(Self, k).fg.op = "idle"
              /\ Ok(__contains__(Self, k)) /\ __contains__(Self, k).ret = 0

\* clear() was called with the flush thread alive and has returned.
C6_Witness ==
    /\ last.op = "clear" /\ last.live /\ fg.op = "idle"
    /\ last.exc = "none" /\ length = 0

-----------------------------------------------------------------------------
\* The container is open and k is in the cache, in the store, or pending in
\* no flush thread.
Pending(k) == \E t \in LiveThreads(Self) : DictHas(ThreadDict(Self, t), k)
AbsentEverywhere(k) ==
    open /\ ~DictHas(cache, k) /\ ~ShelfHas(shelf, _encode_key(k)) /\ ~Pending(k)

\* The outcome a delete of an absent key must have, per conjunct: when the
\* delete ends at once; when it blocks in the join (the key was not found in
\* the cache); while it is blocked (the flush thread does not bring the key
\* into the store); when it passes the join.
DeleteAbsent(k, outcome) ==
    /\ Del(k) /\ AbsentEverywhere(k) /\ fg'.op = "idle" =>
          last'.exc = outcome /\ (outcome # "none" => length' = length)
    /\ Del(k) /\ AbsentEverywhere(k) /\ fg'.op # "idle" =>
          fg'.op = "del" /\ fg'.k = k /\ ~fg'.found /\ AbsentEverywhere(k)'
    /\ fg.op = "del" /\ fg.k = k /\ ~fg.found /\ AbsentEverywhere(k) /\ fg' = fg =>
          AbsentEverywhere(k)'
    /\ fg.op = "del" /\ fg.k = k /\ ~fg.found /\ AbsentEverywhere(k) /\ Passes =>
          /\ fg'.op = "idle"
          /\ last'.exc = IF flush_exception THEN "FlushError" ELSE outcome
          /\ last'.exc # "none" => length' = length

\* C7 (as amended): on an open container, delete(k) of a key that is in neither the cache nor the
\* store (nor pending in a flush thread) raises KeyError, before and after
\* the first flush, and leaves len as it was; after the first flush a
\* pending deferred fault is raised instead.
C7_DeleteAbsentRaises == [][\A k \in Keys : DeleteAbsent(k, "KeyError")]_vars

\* C7 as stated: such a delete ends without raising.
C7_Original == [][\A k \in Keys : DeleteAbsent(k, "none")]_vars

\* After a flush, a delete of an absent key joined and raised KeyError.
C7_Witness ==
    /\ last.op = "del" /\ last.stage = "del" /\ last.exc = "KeyError"
    /\ AbsentEverywhere(last.k) /\ DOMAIN shelf # {}

-----------------------------------------------------------------------------
\* The keys set on a fresh container, and the case C8 is about: fewer of
\* them than cache_limit, no flush yet ("fresh") or one forced flush and
\* nothing but iterate and len since ("flushed").
KeysSet == {k \in Keys : latest[k] # 0}
FewKeys(p) == phase = p /\ Cardinality(KeysSet) < cache_limit

\* C8 (as amended): on a fresh container holding fewer than cache_limit
\* keys, iterate yields exactly the keys set and len counts them, both
\* before any flush and after a forced flush().
C8_IterationSeesCache ==
    \A p \in {"fresh", "flushed"} :
        /\ FewKeys(p) /\ last.op = "iter" =>
              last.exc = "none" /\ last.keys = KeysSet
        /\ FewKeys(p) /\ last.op = "len" =>
              last.exc = "none" /\ last.ret = Cardinality(KeysSet)

\* C8 as stated: before the flush iterate yields no key and len is 0; after
\* the forced flush both reflect the keys.
C8_Original ==
    /\ FewKeys("fresh") /\ last.op = "iter" => last.exc = "none" /\ last.keys = {}
    /\ FewKeys("fresh") /\ last.op = "len" => last.exc = "none" /\ last.ret = 0
    /\ FewKeys("flushed") /\ last.op = "iter" =>
          last.exc = "none" /\ last.keys = KeysSet
    /\ FewKeys("flushed") /\ last.op = "len" =>
          last.exc = "none" /\ last.ret = Cardinality(KeysSet)

\* Iteration before any flush has yielded a key that was set.
C8_Witness ==
    FewKeys("fresh") /\ last.op = "iter" /\ last.keys # {} /\ has_flushed = FALSE

-----------------------------------------------------------------------------
\* C9: whenever a public operation has returned on an open container,
\* cache_size is at most cache_limit.
C9_CacheSizeWithinLimit ==
    open /\ fg.op = "idle" /\ last.op # "init" => Len(cache) <= cache_limit

-----------------------------------------------------------------------------
\* The index an ended list operation was given, counted from the front of
\* a list of length n.
LastIndex(n) == IF last.k < 0 THEN last.k + n ELSE last.k

\* C10: a list insert succeeds exactly at index L (append), a list delete
\* exactly at index L-1 (of a list that is not empty), L the length when
\* called; at any other index of the list both fail with NotImplementedError.
C10_ListRestrictions ==
    /\ last.op = "insert" /\ last.exc = "none" => LastIndex(length - 1) = length - 1
    /\ last.op = "insert" /\ last.exc # "none" =>
          /\ LastIndex(length) # length
          /\ LastIndex(length) \in 0..(length - 1) => last.exc = "NotImplementedError"
    /\ last.op = "delitem" /\ last.exc = "none" => LastIndex(length + 1) = length
    /\ last.op = "delitem" /\ last.exc # "none" =>
          /\ length > 0 => LastIndex(length) # length - 1
          /\ LastIndex(length) \in 0..(length - 1) => last.exc = "NotImplementedError"

-----------------------------------------------------------------------------
\* This step is one in which the foreground thread reads or writes the store:
\* a handler passing the join before its store access, or a next() that goes
\* to the store directly.
ForegroundStoreStep ==
    \/ Passes /\ fg.op \in {"get", "del", "contains", "iter", "clear", "close", "next"}
    \/ fg.op = "idle" /\ fg'.op = "idle" /\ last'.op = "next" /\ it' # it
          /\ NextReadsStore(Self)

\* C11: the foreground thread reads or writes the store only when no flush
\* thread is alive, each next() of a lazily consumed iterator included.
C11_StoreExclusive == [][ForegroundStoreStep => LiveThreads(Self) = {}]_vars

-----------------------------------------------------------------------------
\* The keys that are in the cache and also pending in a live flush thread.
Overlap == {k \in Keys : DictHas(cache, k) /\ Pending(k)}

\* C12 (as amended): when a flush thread is started, no key handed to it is
\* left in the cache; afterwards a key becomes both resident and pending only
\* by being put into the cache again (a set of it) while the thread is alive.
C12_HandoverDisjoint ==
    [][/\ StartsThread => Overlap' = {}
       /\ (Overlap' \ Overlap) \subseteq (DictKeys(cache') \ DictKeys(cache))]_vars

\* C12 as stated: in every state no key is both in the cache and pending.
C12_Original == Overlap = {}

\* After a set, a live flush thread still has entries pending and the cache
\* holds other keys only.
C12_Witness ==
    /\ last.op = "set" /\ fg.op = "idle" /\ cache # <<>>
    /\ \E t \in LiveThreads(Self) : ThreadDict(Self, t) # <<>>
    /\ Overlap = {}

-----------------------------------------------------------------------------
\* This step is a flush(exclusions=E) starting its flush thread: called and
\* not blocked, or passing the join of line 201.
FlushExclStarts(E) ==
    /\ StartsThread
    /\ \/ \E synchronous \in BOOLEAN : FlushExcl(synchronous, E)
       \/ fg.op = "flush" /\ fg.excl = E /\ Passes

\* C13: when flush(exclusions=E), E a non-empty set of resident keys, starts
\* a flush thread, the dict given to the thread is not the cache and holds
\* the resident entries not in E, and cache and recency hold the keys in E.
C13_ExclusionsStayResident ==
    [][\A E \in SUBSET Keys \ {{}} :
          FlushExclStarts(E) /\ E \subseteq DictKeys(cache) =>
              /\ \A t \in LiveThreads(Self)' \ LiveThreads(Self) :
                    /\ ~threads'[t].alias
                    /\ DictKeys(threads'[t].items) = DictKeys(cache) \ E
              /\ DictKeys(cache') = E
              /\ {recency'[i] : i \in DOMAIN recency'} = E]_vars

-----------------------------------------------------------------------------
\* C14: whenever a public operation has returned on an open container
\* (construction included), recency has exactly the keys of cache.
C14_RecencyMatchesCache ==
    open /\ fg.op = "idle" =>
        {recency[i] : i \in DOMAIN recency} = DictKeys(cache)

-----------------------------------------------------------------------------
\* This step is a set of the new key k, or a get miss of k, that finds
\* cache_limit or more entries resident and ends.
EvictingStep(k) ==
    /\ Len(cache) >= cache_limit /\ ~DictHas(cache, k)
    /\ fg'.op = "idle" /\ last'.exc = "none"
    /\ \/ fg.op = "idle" /\ Step(_set(Self, k, 1), "set", "call", k, 1)
       \/ fg.op = "set" /\ fg.k = k /\ Passes
       \/ fg.op = "get" /\ fg.k = k /\ Passes

\* The keys of the dict given to the flush thread this step starts.
Handed ==
    UNION {DictKeys(threads'[t].items) : t \in LiveThreads(Self)' \ LiveThreads(Self)}

\* The keys of the n entries with the oldest time stamps.
Oldest(n) == {recency[i] : i \in 1..n}

-----------------------------------------------------------------------------
\* C16: under fair scheduling, a handler that is waiting in the join of
\* _wait_for_flush eventually returns or raises.
C16_JoinReturns == (fg.op \notin {"idle", "failed"}) ~> (fg.op = "idle")

\* A handler that found the flush thread alive at its join has ended.
C16_Witness ==
    fg.op = "idle" /\ last.live /\ last.stage # "call" /\ LiveThreads(Self) = {}

-----------------------------------------------------------------------------
\* Index i can be read: its entry is resident, or in the store or on its
\* way to it.
Retrievable(i) ==
    \/ DictHas(cache, i)
    \/ has_flushed /\ (ShelfHas(shelf, _encode_key(i)) \/ Pending(i))

\* Exactly the indices below the length can be read.
Consistent == \A i \in AllKeys : Retrievable(i) <=> i < length

\* This step ends a trim: one called on a consistent list that never waited,
\* or one that raises or returns after waiting for a flush thread that was
\* alive when the trim reached its join.
TrimEnds ==
    /\ fg'.op = "idle"
    /\ \/ fg.op = "idle" /\ Consistent /\ \E n \in 0..(MaxSeed + 1) : Trim(n)
       \/ fg.op = "trim" /\ fg.live /\ Passes

\* C17: trim(n) deletes the last index first; when it has ended, by returning
\* or by raising part-way, the length is at least n (n itself when it
\* returned and the list was longer) and exactly the indices below the
\* length can be read.
C17_TrimConsistent ==
    [][/\ fg'.op = "trim" => fg'.v = length' - 1 /\ fg'.k <= fg'.v
       /\ TrimEnds =>
             /\ last'.exc = "none" => length' <= last'.k
             /\ last'.k <= length' \/ length' = length
             /\ Consistent']_vars

-----------------------------------------------------------------------------
\* C18: whenever a set has returned, len is the number of keys the container
\* holds (the keys set and not deleted); a set of a key that was evicted
\* does not change it.
C18_LenCountsKeys ==
    fg.op = "idle" /\ last.op = "set" /\ last.exc = "none" =>
        length = Cardinality(KeysSet)

-----------------------------------------------------------------------------
\* C19: construction with initial items succeeds whatever their number, and
\* afterwards every set returns and every get of an initial or later key
\* returns its latest value.
C19_SeededLikeSet ==
    /\ fg.op # "failed"
    /\ last.op \in {"init", "set"} => last.exc = "none"
    /\ last.op = "get" /\ latest[last.k] # 0 =>
          last.exc = "none" /\ last.ret = latest[last.k]

====
